---- MODULE Spec2Model ----
(***************************************************************************)
(* The locations API of Axum-API-with-Auth: the role model                 *)
(* (src/users/model.rs) and the four location handlers                     *)
(* (src/locations/router.rs).  The handlers run concurrently; read, update *)
(* and delete hold no await point and touch the database with one          *)
(* statement, so each is one atomic action.  create awaits                 *)
(* enforce_role_policy between decoding the claims and inserting, so it is *)
(* three steps with the other handlers and the user store free to move in  *)
(* between.                                                                *)
(*                                                                         *)
(* common::security (decode_claims, enforce_role_policy), the              *)
(* LocationDatabase service and the connection pool are not among the      *)
(* source files: they are modelled from the specification's contracts      *)
(* (sections 4.2-4.4 and 6).                                               *)
(***************************************************************************)
EXTENDS Integers, FiniteSets, Sequences, TLC

VARIABLES
    users,      \* user store: subject -> role_id (users.role_id, an i32)
    locations,  \* resource store: id -> [star_system, area]
    slot,       \* the create request in flight, per slot: its position and locals
    wire,       \* the exchange last completed and not yet observed by its client
    removed     \* history: ids a delete answered 204 took out, not created since

vars == <<users, locations, slot, wire, removed>>

\* ---------------------------------------------------------------- bounds

\* Location ids the store may hold: 1..MaxId.
MaxId == 2
\* role_id values the user store may hold: 0..MaxRoleId (0 and 5.. map to INVALID).
MaxRoleId == 4
\* Integers the role conversions are exercised on: -RoleIntSpan..RoleIntSpan.
RoleIntSpan == 6
\* Create requests that may be in flight at once.
MaxInFlight == 1

\* The id the tests use as "no such location" (router.rs:295).
MissingId == -666

Ids == 1..MaxId
PathIds == Ids \cup {MissingId}
StoredRoleIds == 0..MaxRoleId
RoleInts == ((0 - RoleIntSpan)..RoleIntSpan) \cup {MissingId}
Slots == 1..MaxInFlight

\* ------------------------------------------------------------ role model

UserRole == {"READER", "WRITER", "EDITOR", "ADMIN", "INVALID"}
ValidRoles == UserRole \ {"INVALID"}

\* A sentinel that outranks ADMIN instead of ranking below READER.
to_int_sentinel_high(role) ==
    CASE role = "READER" -> 1
      [] role = "WRITER" -> 2
      [] role = "EDITOR" -> 3
      [] role = "ADMIN" -> 4
      [] OTHER -> 666

\* EDITOR and ADMIN share an ordinal.
to_int_collide(role) ==
    CASE role = "READER" -> 1
      [] role = "WRITER" -> 2
      [] role = "EDITOR" -> 4
      [] role = "ADMIN" -> 4
      [] OTHER -> -666

\* UserRole::to_int
to_int(role) ==
    CASE role = "READER" -> 1
      [] role = "WRITER" -> 2
      [] role = "EDITOR" -> 3
      [] role = "ADMIN" -> 4
      [] OTHER -> -666

\* int_to_user_role
int_to_user_role(role_id) ==
    CASE role_id = 1 -> "READER"
      [] role_id = 2 -> "WRITER"
      [] role_id = 3 -> "EDITOR"
      [] role_id = 4 -> "ADMIN"
      [] OTHER -> "INVALID"

\* ------------------------------------------------------- requests, replies

\* UpsertLocation bodies (the two the tests send).
Upserts ==
    { [star_system |-> "Fountain", area |-> "The Serpent's Lair"],
      [star_system |-> "Kador", area |-> "The Crimson Expanse"] }

\* Location: an UpsertLocation with its id.
Location(id, u) == [id |-> id, star_system |-> u.star_system, area |-> u.area]

\* What the token verifier makes of a request's Authorization header.
\* "u1" is the one subject the user store knows; "u2" is unknown to it.
TokenU1 == [kind |-> "valid", sub |-> "u1", role_int |-> 2]
TokenU2 == [kind |-> "valid", sub |-> "u2", role_int |-> 7]
Headers ==
    { [kind |-> "none"], [kind |-> "malformed"], [kind |-> "tampered"],
      [kind |-> "expired"], TokenU1, TokenU2 }
\* read, update and delete take no HeaderMap: their requests carry an absent,
\* an invalid or a valid header, which the handler never sees.
UngatedHeaders == { [kind |-> "none"], [kind |-> "tampered"], TokenU1 }

None == [kind |-> "nothing"]
ErrorBody(msg) == [error |-> msg]
Reply(status, body) == [answered |-> TRUE, status |-> status, body |-> body]
\* .expect() on pool.get() panics the handler's task: the client gets no response.
Panicked ==
    [answered |-> FALSE, status |-> 0,
     body |-> [panic |-> "Failed to acquire connection from pool"]]
Exchange(req, reply) ==
    [kind |-> "exchange", req |-> req, answered |-> reply.answered,
     status |-> reply.status, body |-> reply.body]

Idle == [pc |-> "idle"]

Ok(val) == [ok |-> TRUE, val |-> val]
Err(reply) == [ok |-> FALSE, err |-> reply]

\* ------------------------------------------- collaborators (specification)

\* common::security::decode_claims (section 4.2): bearer extraction, signature
\* verification, expiry, then the role integer through int_to_user_role.
decode_claims(headers) ==
    CASE headers.kind \in {"none", "malformed"} ->
            Err(Reply(401, ErrorBody("MissingToken")))
      [] headers.kind = "tampered" -> Err(Reply(401, ErrorBody("InvalidToken")))
      [] headers.kind = "expired" -> Err(Reply(401, ErrorBody("Expired")))
      [] OTHER ->
            Ok([sub |-> headers.sub, role |-> int_to_user_role(headers.role_int)])

\* The user store's findByIdentifier (section 6).
find_by_identifier(store, sub) ==
    IF sub \in DOMAIN store THEN [sub |-> sub, role_id |-> store[sub]] ELSE None

\* common::security::enforce_role_policy (sections 4.3, 4.4): resolve the
\* subject, then compare the stored role with the required one.  io is whether
\* the user store answered.
enforce_role_policy(store, claims, required, io) ==
    IF ~io THEN Err(Reply(500, ErrorBody("StoreUnavailable")))
    ELSE LET user == find_by_identifier(store, claims.sub) IN
         IF user = None THEN Err(Reply(401, ErrorBody("UnknownSubject")))
         ELSE IF to_int(int_to_user_role(user.role_id)) >= to_int(required)
              THEN Ok(user)
              ELSE Err(Reply(403, ErrorBody("InsufficientRole")))

\* LocationDatabase (section 6): create, get, update, delete by id.
db_create(locs, id, u) ==
    [i \in DOMAIN locs \cup {id} |-> IF i = id THEN u ELSE locs[i]]
db_get(locs, id) ==
    IF id \in DOMAIN locs THEN Location(id, locs[id]) ELSE None
db_update(locs, id, u) ==
    [i \in DOMAIN locs |-> IF i = id THEN u ELSE locs[i]]
db_delete(locs, id) ==
    [i \in DOMAIN locs \ {id} |-> locs[i]]

\* ---------------------------------------------------------------- handlers
\* conn: whether pool.get() yields a connection; io: whether the statement
\* runs without a database error (other than NotFound).

\* Answers 200 with whatever id was asked for, found or not.
read_location_handler_always_ok(locs, location_id, conn, io) ==
    IF ~conn THEN Panicked
    ELSE IF ~io THEN Reply(500, ErrorBody("Failed to read location"))
    ELSE IF location_id \in DOMAIN locs
         THEN Reply(200, db_get(locs, location_id))
         ELSE Reply(200, ErrorBody("Location not found"))

read_location_handler(locs, location_id, conn, io) ==
    IF ~conn THEN Panicked
    ELSE IF ~io THEN Reply(500, ErrorBody("Failed to read location"))
    ELSE LET location == db_get(locs, location_id) IN
         IF location # None
         THEN Reply(200, location)
         ELSE Reply(404, ErrorBody("Location not found"))

\* An update that inserts the row when the id is missing.
update_location_handler_upsert(locs, location_id, upsert_location, conn, io) ==
    IF ~conn THEN [reply |-> Panicked, locs |-> locs]
    ELSE IF ~io
         THEN [reply |-> Reply(500, ErrorBody("Failed to update location")),
               locs |-> locs]
    ELSE [reply |-> Reply(200, Location(location_id, upsert_location)),
          locs |-> db_create(locs, location_id, upsert_location)]

update_location_handler(locs, location_id, upsert_location, conn, io) ==
    IF ~conn THEN [reply |-> Panicked, locs |-> locs]
    ELSE IF ~io
         THEN [reply |-> Reply(500, ErrorBody("Failed to update location")),
               locs |-> locs]
    ELSE IF location_id \in DOMAIN locs
         THEN [reply |-> Reply(200, Location(location_id, upsert_location)),
               locs |-> db_update(locs, location_id, upsert_location)]
         ELSE [reply |-> Reply(404, ErrorBody("Location not found")),
               locs |-> locs]

\* Answers 204 without running the delete.
delete_location_handler_noop(locs, location_id, conn, io) ==
    IF ~conn THEN [reply |-> Panicked, locs |-> locs]
    ELSE IF ~io
         THEN [reply |-> Reply(500, ErrorBody("Failed to delete location")),
               locs |-> locs]
    ELSE [reply |-> Reply(204, None), locs |-> locs]

delete_location_handler(locs, location_id, conn, io) ==
    IF ~conn THEN [reply |-> Panicked, locs |-> locs]
    ELSE IF ~io
         THEN [reply |-> Reply(500, ErrorBody("Failed to delete location")),
               locs |-> locs]
    ELSE [reply |-> Reply(204, None), locs |-> db_delete(locs, location_id)]

\* ------------------------------------------------------------------ state

Init ==
    /\ users \in [{"u1"} -> StoredRoleIds]
    /\ locations = <<>>
    /\ slot = [s \in Slots |-> Idle]
    /\ wire = None
    /\ removed = {}

\* GET /locations/:location_id
ReadLocation ==
    /\ wire = None
    /\ \E headers \in UngatedHeaders, id \in PathIds, conn \in BOOLEAN, io \in BOOLEAN :
          wire' = Exchange([op |-> "read", headers |-> headers, id |-> id],
                           read_location_handler(locations, id, conn, io))
    /\ UNCHANGED <<users, locations, slot, removed>>

\* PUT /locations/:location_id
UpdateLocation ==
    /\ wire = None
    /\ \E headers \in UngatedHeaders, id \in PathIds, u \in Upserts,
          conn \in BOOLEAN, io \in BOOLEAN :
          LET r == update_location_handler(locations, id, u, conn, io) IN
          /\ wire' = Exchange([op |-> "update", headers |-> headers, id |-> id,
                               upsert |-> u], r.reply)
          /\ locations' = r.locs
    /\ UNCHANGED <<users, slot, removed>>

\* DELETE /locations/:location_id
DeleteLocation ==
    /\ wire = None
    /\ \E headers \in UngatedHeaders, id \in PathIds, conn \in BOOLEAN, io \in BOOLEAN :
          LET r == delete_location_handler(locations, id, conn, io) IN
          /\ wire' = Exchange([op |-> "delete", headers |-> headers, id |-> id],
                              r.reply)
          /\ locations' = r.locs
          /\ removed' = IF r.reply.status = 204 /\ id \in DOMAIN locations
                        THEN removed \cup {id} ELSE removed
    /\ UNCHANGED <<users, slot>>

CreateRequest(s) == [op |-> "create", headers |-> slot[s].headers,
                     upsert |-> slot[s].upsert]

\* POST /locations, lines 36-40: decode the claims or return the decode error.
CreateDecode(s) ==
    /\ slot[s].pc = "idle"
    /\ \E headers \in Headers, u \in Upserts :
          LET d == decode_claims(headers) IN
          IF d.ok
          THEN /\ slot' = [slot EXCEPT ![s] =
                            [pc |-> "decoded", headers |-> headers, upsert |-> u,
                             claims |-> d.val]]
               /\ UNCHANGED wire
          ELSE /\ wire = None
               /\ wire' = Exchange([op |-> "create", headers |-> headers,
                                    upsert |-> u], d.err)
               /\ UNCHANGED slot
    /\ UNCHANGED <<users, locations, removed>>

\* Grants on the role the token carries instead of the role the store holds.
CreateEnforceByClaims(s) ==
    /\ slot[s].pc = "decoded"
    /\ IF to_int(slot[s].claims.role) >= to_int("WRITER")
       THEN /\ slot' = [slot EXCEPT ![s].pc = "authorized"]
            /\ UNCHANGED wire
       ELSE /\ wire = None
            /\ wire' = Exchange(CreateRequest(s),
                                Reply(403, ErrorBody("InsufficientRole")))
            /\ slot' = [slot EXCEPT ![s] = Idle]
    /\ UNCHANGED <<users, locations, removed>>

\* Goes on to the store whatever enforce_role_policy returned.
CreateEnforceFallThrough(s) ==
    /\ slot[s].pc = "decoded"
    /\ slot' = [slot EXCEPT ![s].pc = "authorized"]
    /\ UNCHANGED <<users, locations, wire, removed>>

\* POST /locations, lines 42-45 and 58: enforce WRITER or return the error.
CreateEnforce(s) ==
    /\ slot[s].pc = "decoded"
    /\ \E io \in BOOLEAN :
          LET authorization ==
                  enforce_role_policy(users, slot[s].claims, "WRITER", io) IN
          IF authorization.ok
          THEN /\ slot' = [slot EXCEPT ![s].pc = "authorized"]
               /\ UNCHANGED wire
          ELSE /\ wire = None
               /\ wire' = Exchange(CreateRequest(s), authorization.err)
               /\ slot' = [slot EXCEPT ![s] = Idle]
    /\ UNCHANGED <<users, locations, removed>>

\* POST /locations, lines 46-57: take a connection and insert.
CreateExecute(s) ==
    /\ slot[s].pc = "authorized"
    /\ wire = None
    /\ \E conn \in BOOLEAN, io \in BOOLEAN :
          IF ~conn
          THEN /\ wire' = Exchange(CreateRequest(s), Panicked)
               /\ UNCHANGED <<locations, removed>>
          ELSE IF ~io
          THEN /\ wire' = Exchange(CreateRequest(s),
                     Reply(500, ErrorBody("Failed to create location")))
               /\ UNCHANGED <<locations, removed>>
          ELSE \E id \in Ids \ DOMAIN locations :
               /\ wire' = Exchange(CreateRequest(s),
                     Reply(201, Location(id, slot[s].upsert)))
               /\ locations' = db_create(locations, id, slot[s].upsert)
               /\ removed' = removed \ {id}
    /\ slot' = [slot EXCEPT ![s] = Idle]
    /\ UNCHANGED users

\* The user store is written by others (user administration): a stored role
\* changes at any time.
ChangeUserRole ==
    /\ \E r \in StoredRoleIds \ {users["u1"]} : users' = [users EXCEPT !["u1"] = r]
    /\ UNCHANGED <<locations, slot, wire, removed>>

\* The client observes the completed exchange.
Deliver ==
    /\ wire # None
    /\ wire' = None
    /\ UNCHANGED <<users, locations, slot, removed>>

Next ==
    \/ ReadLocation
    \/ UpdateLocation
    \/ DeleteLocation
    \/ \E s \in Slots : CreateDecode(s)
    \/ \E s \in Slots : CreateEnforce(s)
    \/ \E s \in Slots : CreateExecute(s)
    \/ ChangeUserRole
    \/ Deliver

Spec == Init /\ [][Next]_vars

\* ------------------------------------------------------------- properties

\* The role order as the enumeration declares it (model.rs:18-24).
RoleOrder == <<"READER", "WRITER", "EDITOR", "ADMIN">>
Rank(r) == CHOOSE i \in DOMAIN RoleOrder : RoleOrder[i] = r
AtLeast(r, q) == r \in ValidRoles /\ Rank(r) >= Rank(q)

\* This step completes a request of kind op.
Completes(op) == wire = None /\ wire' # None /\ wire'.req.op = op
\* The pool gave a connection and the statement ran.
StoreAnswered(x) == x.answered /\ x.status # 500
\* Slot s leaves the enforcement stage in this step.
EnforceStep(s) == slot[s].pc = "decoded" /\ slot'[s].pc # "decoded"

\* C1: a location is created, updated or deleted only by a request that passed
\* the gate: every step in which a mutating request changes the resource store
\* is taken for a request that carries a valid token and has come through the
\* enforcement stage.
C1_MutationStep ==
    (/\ wire = None /\ wire' # None
     /\ wire'.req.op \in {"create", "update", "delete"}
     /\ locations' # locations)
    => /\ wire'.req.headers.kind = "valid"
       /\ \E s \in Slots :
             /\ slot[s].pc = "authorized"
             /\ slot'[s].pc = "idle"
             /\ slot[s].headers = wire'.req.headers

\* C1: in every step, the resource store is changed only by a mutating
\* request whose authorization succeeded.
C1_MutationOnlyAfterAuthorization == [][C1_MutationStep]_vars

\* C2 (policy): for every stored role and every required valid role the check
\* succeeds exactly when the role is valid and ranks at least as high, and a
\* failure is the 403 denial.
C2_PolicyIsMinimumRole ==
    \A n \in RoleInts \cup StoredRoleIds, q \in ValidRoles :
        LET a == enforce_role_policy([x \in {"u1"} |-> n],
                                     [sub |-> "u1", role |-> "READER"], q, TRUE)
        IN /\ a.ok <=> AtLeast(int_to_user_role(n), q)
           /\ ~a.ok => a.err.status = 403 /\ "error" \in DOMAIN a.err.body

\* C2 (create): when create enforces WRITER against a known user, a READER or
\* INVALID user is answered 403 with an error body (500/503 if the user
\* store failed) and a WRITER, EDITOR or ADMIN user proceeds to the store.
C2_CreateEnforcesWriter ==
    \A s \in Slots :
        EnforceStep(s) =>
            LET user == find_by_identifier(users, slot[s].claims.sub) IN
            user # None =>
                LET r == int_to_user_role(user.role_id) IN
                /\ r \in {"READER", "INVALID"} =>
                       /\ slot'[s].pc = "idle"
                       /\ wire'.status \in {403, 500, 503}
                       /\ "error" \in DOMAIN wire'.body
                /\ r \in {"WRITER", "EDITOR", "ADMIN"} =>
                       \/ slot'[s].pc = "authorized"
                       \/ slot'[s].pc = "idle" /\ wire'.status \in {500, 503}
                /\ (slot'[s].pc = "idle" /\ wire'.status = 403) =>
                       r \in {"READER", "INVALID"}

\* C2: the policy check is a minimum-role comparison, and create applies it
\* with WRITER.
C2_MinimumRole == [](C2_PolicyIsMinimumRole) /\ [][C2_CreateEnforcesWriter]_vars

\* C2 witness: a create with u1's token is denied while u1 is stored as READER.
C2_Witness ==
    /\ wire # None
    /\ wire.req.op = "create"
    /\ wire.req.headers = TokenU1
    /\ wire.status = 403
    /\ users["u1"] = 1

\* C3: int_to_user_role and to_int are inverse on 1..4, every other integer is
\* INVALID, INVALID's ordinal is below 1, and to_int maps the four valid roles
\* one-to-one onto 1..4 -- over the bounded integers, the role_ids the user
\* store holds and the role integers decoded into claims.
C3_RoleRoundTrip ==
    /\ \A n \in RoleInts \cup StoredRoleIds :
          /\ n \in 1..4 => to_int(int_to_user_role(n)) = n
          /\ n \notin 1..4 => int_to_user_role(n) = "INVALID"
    /\ to_int("INVALID") < 1
    /\ \A r \in ValidRoles : to_int("INVALID") < to_int(r)
    /\ \A r1, r2 \in ValidRoles : to_int(r1) = to_int(r2) => r1 = r2
    /\ {to_int(r) : r \in ValidRoles} = 1..4
    /\ \A u \in DOMAIN users :
          LET r == int_to_user_role(users[u]) IN
          IF users[u] \in 1..4 THEN r = RoleOrder[users[u]] /\ to_int(r) = users[u]
          ELSE r = "INVALID" /\ to_int(r) < 1
    /\ \A s \in Slots :
          slot[s].pc # "idle" =>
              LET n == slot[s].headers.role_int IN
              slot[s].claims.role = IF n \in 1..4 THEN RoleOrder[n] ELSE "INVALID"

\* C3 witness: an out-of-range role integer has been decoded into claims while
\* the user store holds an out-of-range role_id.
C3_Witness ==
    /\ users["u1"] \notin 1..4
    /\ \E s \in Slots : slot[s].pc = "decoded" /\ slot[s].claims.role = "INVALID"

\* C4: each create's allow/deny decision is taken from the role_id the user
\* store holds for the subject in the state the request is enforced in, and a
\* slot that has answered retains nothing.
C4_EnforcementStep ==
    \A s \in Slots :
        EnforceStep(s) =>
            LET sub == slot[s].claims.sub
                stored == IF sub \in DOMAIN users THEN {users[sub]} ELSE {}
            IN /\ slot'[s].pc = "authorized" => stored \subseteq 2..4 /\ stored # {}
               /\ (slot'[s].pc = "idle" /\ wire'.status = 403) =>
                      stored # {} /\ stored \cap 2..4 = {}
               /\ (stored # {} /\ stored \subseteq 2..4) =>
                      \/ slot'[s].pc = "authorized"
                      \/ slot'[s].pc = "idle" /\ wire'.status \in {500, 503}
               /\ slot'[s].pc = "idle" => slot'[s] = Idle
               /\ users' = users

\* C4: in every step, authorization is decided afresh from the role the user
\* store holds at that moment.
C4_FreshAuthorization == [][C4_EnforcementStep]_vars

\* C4 witness: u1's token created a location earlier (only u1's token can pass
\* the gate) and a create with the same token is now denied, u1 being READER.
C4_Witness ==
    /\ DOMAIN locations # {}
    /\ wire # None
    /\ wire.req.op = "create"
    /\ wire.req.headers = TokenU1
    /\ wire.status = 403
    /\ users["u1"] = 1
    /\ \A s \in Slots : slot[s] = Idle

\* C5: a POST /locations with a valid body and no Authorization header is
\* answered 201 Created (tests::post_locations_returns_201_on_valid_data).
C5_PostWithoutHeaderIs201 ==
    (wire # None /\ wire.req.op = "create" /\ wire.req.headers.kind = "none")
    => (wire.answered /\ wire.status = 201)

\* C6: an id that a delete answered 204 removed stays absent until a create
\* produces it again: the store's get finds none and the read handler
\* answers 404.
C6_DeletedStaysGone ==
    \A id \in removed :
        /\ id \notin DOMAIN locations
        /\ db_get(locations, id) = None
        /\ read_location_handler(locations, id, TRUE, TRUE).status = 404
        /\ (wire # None /\ wire.req.op = "read" /\ wire.req.id = id
               /\ StoreAnswered(wire))
           => wire.status = 404

\* C6 witness: a get of an id removed by a 204 delete has been answered 404.
C6_Witness ==
    /\ wire # None
    /\ wire.req.op = "read"
    /\ wire.req.id \in removed
    /\ wire.status = 404

\* C7: where the store carries the statement out, an update of an existing id
\* is answered 200 with that id and the request's star_system and area, which
\* the store then holds (every other location untouched); an update of a
\* missing id is answered 404 with an error body and changes nothing.
C7_UpdateStep ==
    Completes("update") =>
        LET id == wire'.req.id
            u == wire'.req.upsert
        IN /\ wire'.answered => wire'.status \in {200, 404, 500}
           /\ ~StoreAnswered(wire') => locations' = locations
           /\ (StoreAnswered(wire') /\ id \in DOMAIN locations) =>
                  /\ wire'.status = 200
                  /\ wire'.body = [id |-> id, star_system |-> u.star_system,
                                   area |-> u.area]
                  /\ DOMAIN locations' = DOMAIN locations
                  /\ locations'[id] = u
                  /\ \A i \in DOMAIN locations \ {id} : locations'[i] = locations[i]
           /\ (StoreAnswered(wire') /\ id \notin DOMAIN locations) =>
                  /\ wire'.status = 404
                  /\ "error" \in DOMAIN wire'.body
                  /\ locations' = locations

\* C7: every update step answers 200 with the new values stored, or 404 with
\* the store unchanged.
C7_UpdateExistingOr404 == [][C7_UpdateStep]_vars

\* C7 witness: an update changed a stored location and was answered 200.
C7_Witness ==
    /\ wire # None
    /\ wire.req.op = "update"
    /\ wire.status = 200
    /\ wire.req.upsert.star_system = "Kador"
    /\ locations[wire.req.id] = wire.req.upsert
    /\ wire.body.id = wire.req.id

\* C8: whatever the Authorization header, a read answers 200 with the stored
\* location when the id exists and 404 with an error body when it does not
\* (where the store carries the statement out), and never changes the store.
C8_ReadStep ==
    Completes("read") =>
        LET id == wire'.req.id IN
        /\ locations' = locations
        /\ wire'.answered => wire'.status \in {200, 404, 500}
        /\ (StoreAnswered(wire') /\ id \in DOMAIN locations) =>
               /\ wire'.status = 200
               /\ wire'.body = [id |-> id,
                                star_system |-> locations[id].star_system,
                                area |-> locations[id].area]
        /\ (StoreAnswered(wire') /\ id \notin DOMAIN locations) =>
               /\ wire'.status = 404
               /\ "error" \in DOMAIN wire'.body

\* C8: every read step answers 200 or 404 by the id alone, whatever the
\* header, and leaves the store unchanged.
C8_ReadUnauthenticatedReadOnly == [][C8_ReadStep]_vars

\* C8 witness: a read without an Authorization header was answered 200, and a
\* location exists that a read with a valid token would be answered with too.
C8_Witness ==
    /\ wire # None
    /\ wire.req.op = "read"
    /\ wire.req.headers.kind = "none"
    /\ wire.status = 200
    /\ wire.body.id = wire.req.id

\* C9: a create runs decode, then enforce, then execute, each only after the
\* one before succeeded; a decode failure is answered with exactly the decode
\* error and an enforcement failure with exactly the enforcement error, the
\* store unchanged in both; only an authorized request inserts.
C9_CreateStep ==
    /\ \A s \in Slots :
          /\ slot'[s].pc # slot[s].pc =>
                <<slot[s].pc, slot'[s].pc>> \in
                    { <<"idle", "decoded">>, <<"decoded", "authorized">>,
                      <<"decoded", "idle">>, <<"authorized", "idle">> }
          /\ (slot[s].pc = "idle" /\ slot'[s].pc = "decoded") =>
                /\ decode_claims(slot'[s].headers).ok
                /\ slot'[s].claims = decode_claims(slot'[s].headers).val
                /\ locations' = locations /\ wire' = wire
          /\ (slot[s].pc = "decoded" /\ slot'[s].pc = "authorized") =>
                /\ \E io \in BOOLEAN :
                      enforce_role_policy(users, slot[s].claims, "WRITER", io).ok
                /\ locations' = locations /\ wire' = wire
          /\ (slot[s].pc = "decoded" /\ slot'[s].pc = "idle") =>
                /\ locations' = locations
                /\ wire'.req = [op |-> "create", headers |-> slot[s].headers,
                                upsert |-> slot[s].upsert]
                /\ \E io \in BOOLEAN :
                      LET a == enforce_role_policy(users, slot[s].claims,
                                                   "WRITER", io)
                      IN ~a.ok /\ wire'.status = a.err.status
                               /\ wire'.body = a.err.body
    /\ (Completes("create") /\ slot' = slot) =>
          LET d == decode_claims(wire'.req.headers) IN
          /\ ~d.ok
          /\ wire'.status = d.err.status /\ wire'.body = d.err.body
          /\ locations' = locations
    /\ (Completes("create") /\ locations' # locations) =>
          \E s \in Slots : slot[s].pc = "authorized" /\ slot'[s].pc = "idle"

\* C9: every step of a create keeps the order decode, enforce, execute and
\* answers a rejected request with the first error, the store unchanged.
C9_CreateStagesInOrder == [][C9_CreateStep]_vars

\* C9 witness: a create with a tampered token was answered with the decode
\* error, nothing in flight and nothing stored.
C9_Witness ==
    /\ wire # None
    /\ wire.req.op = "create"
    /\ wire.req.headers.kind = "tampered"
    /\ wire.status = 401
    /\ wire.body = [error |-> "InvalidToken"]
    /\ DOMAIN locations = {}

\* C10: a request whose pool acquisition fails is answered (500/503 with an
\* error body); no request is left without a response.
C10_PoolFailureIsAnswered ==
    wire # None =>
        /\ wire.answered
        /\ wire.status \in {200, 201, 204, 401, 403, 404, 500, 503}
====
